---- MODULE Spec2Model ----
(***************************************************************************)
(* Model of Final_Project_automatic.py (and its near-duplicate             *)
(* Final_Project_automatic_v12.py): the fetch -> analyze -> regress ->     *)
(* dashboard script and its three stage functions.                         *)
(*                                                                         *)
(* Numbers.  The code computes in IEEE doubles; the model computes the     *)
(* same expressions in exact arithmetic and keeps the three non-finite     *)
(* outcomes of a double (NaN, +inf, -inf).  A cell value is a record       *)
(*   [k, s, n, d]   k = "nan" | "inf" | "rat" | "root"                     *)
(* "rat" is s*n/d (n >= 0, d > 0, lowest terms), "root" is s*sqrt(n/d)     *)
(* (a standard deviation, or a mean divided by one), "inf" is s*infinity.  *)
(* Prices are positive, so no price is 0.                                  *)
(*                                                                         *)
(* Frames.  A DataFrame is [columns |-> <<names>>, rows |-> <<records>>];  *)
(* pd.DataFrame() is the frame with no column and no row.                  *)
(***************************************************************************)
EXTENDS Integers, Sequences, FiniteSets, TLC

VARIABLES
    pc,            \* position of the module-level script / of the direct call
    symbols,       \* the symbol list handed to fetch_last_60_days_prices
    api_sort,      \* the order in which the upstream API lists a symbol's days
    responses,     \* responses[j]: what the API answered for symbols[j]
    i,             \* fetch loop: number of symbols requested so far
    all_data,      \* fetch local: list of per-symbol frames
    data,          \* the module-level dataset (the argument of the stages)
    performance,   \* result of analyze_and_recommend, first component
    top_5_stocks,  \* result of analyze_and_recommend, second component
    stock_metrics, \* result of perform_regression, first component
    top_stocks,    \* result of perform_regression, second component
    files,         \* the CSV files written so far: file name and the frame saved in it
    exc,           \* "none", or the exception that escaped
    calls,         \* names of the stage functions invoked so far
    layout_built,  \* app.layout has been assigned
    shown          \* what the last update_dashboard call passed to the charts

vars == <<pc, symbols, api_sort, responses, i, all_data, data, performance, top_5_stocks,
          stock_metrics, top_stocks, files, exc, calls, layout_built, shown>>

----------------------------------------------------------------------------
(* Exact arithmetic on cell values                                         *)

Abs(x) == IF x < 0 THEN -x ELSE x

Sign(x) == IF x < 0 THEN -1 ELSE IF x = 0 THEN 0 ELSE 1

RECURSIVE Gcd(_, _)
Gcd(a, b) == IF b = 0 THEN a ELSE Gcd(b, a % b)

NaN == [k |-> "nan", s |-> 0, n |-> 0, d |-> 1]

Inf(sg) == [k |-> "inf", s |-> sg, n |-> 0, d |-> 1]

\* the rational a/b (b # 0) in lowest terms
Rat(a, b) ==
    LET g == Gcd(Abs(a), Abs(b))
    IN  [k |-> "rat", s |-> Sign(a) * Sign(b), n |-> Abs(a) \div g, d |-> Abs(b) \div g]

\* s * sqrt(a/b), a >= 0, b > 0
Root(sg, a, b) ==
    LET g == Gcd(a, b)
    IN  [k |-> "root", s |-> IF a = 0 THEN 0 ELSE sg, n |-> a \div g, d |-> b \div g]

IsNaN(x) == x.k = "nan"

IsFinite(x) == x.k \in {"rat", "root"}

Num(x) == x.s * x.n     \* signed numerator of a "rat"

Neg(x) == [x EXCEPT !.s = -x.s]

\* IEEE addition: NaN propagates, inf + (-inf) is NaN
FAdd(x, y) ==
    IF IsNaN(x) \/ IsNaN(y) THEN NaN
    ELSE IF x.k = "inf" THEN (IF y.k = "inf" /\ y.s # x.s THEN NaN ELSE x)
    ELSE IF y.k = "inf" THEN y
    ELSE Rat(Num(x) * y.d + Num(y) * x.d, x.d * y.d)

FSub(x, y) == FAdd(x, Neg(y))

\* IEEE multiplication: inf * 0 is NaN
FMul(x, y) ==
    IF IsNaN(x) \/ IsNaN(y) THEN NaN
    ELSE IF x.k = "inf" \/ y.k = "inf" THEN (IF x.s * y.s = 0 THEN NaN ELSE Inf(x.s * y.s))
    ELSE Rat(Num(x) * Num(y), x.d * y.d)

\* IEEE division: 0/0 and inf/inf are NaN, x/0 is +-inf, x/inf is 0
FDiv(x, y) ==
    IF IsNaN(x) \/ IsNaN(y) THEN NaN
    ELSE IF x.k = "inf" THEN (IF y.k = "inf" THEN NaN ELSE Inf(IF y.s < 0 THEN -x.s ELSE x.s))
    ELSE IF y.k = "inf" THEN Rat(0, 1)
    ELSE IF y.s = 0 THEN (IF x.s = 0 THEN NaN ELSE Inf(x.s))
    ELSE Rat(Num(x) * y.d, x.d * Num(y))

\* the square of a finite value, as a "rat"
Square(x) == IF x.k = "root" THEN Rat(x.n, x.d) ELSE Rat(x.n * x.n, x.d * x.d)

\* x < y on non-NaN values (doubles compare this way; NaN never reaches here)
Lt(x, y) ==
    IF x.k = "inf" THEN x.s < 0 /\ ~(y.k = "inf" /\ y.s < 0)
    ELSE IF y.k = "inf" THEN y.s > 0
    ELSE IF x.s # y.s THEN x.s < y.s
    ELSE IF x.k = "rat" /\ y.k = "rat" THEN Num(x) * y.d < Num(y) * x.d
    ELSE LET a == Square(x)
             b == Square(y)
         IN  IF x.s > 0 THEN a.n * b.d < b.n * a.d
             ELSE IF x.s < 0 THEN a.n * b.d > b.n * a.d
             ELSE FALSE

RECURSIVE SumSeq(_)
SumSeq(xs) == IF xs = <<>> THEN Rat(0, 1) ELSE FAdd(Head(xs), SumSeq(Tail(xs)))

\* Series.dropna(): the non-NaN values, in order
NotNaN(xs) == SelectSeq(xs, LAMBDA x : ~IsNaN(x))

\* mean, skipping NaN; NaN when nothing is left
Mean(xs) ==
    LET ys == NotNaN(xs)
    IN  IF ys = <<>> THEN NaN ELSE FDiv(SumSeq(ys), Rat(Len(ys), 1))

\* sample variance (ddof = 1), skipping NaN; NaN on fewer than 2 values
Var(xs) ==
    LET ys == NotNaN(xs)
        m  == Mean(ys)
        sq == [j \in 1..Len(ys) |-> FMul(FSub(ys[j], m), FSub(ys[j], m))]
    IN  IF Len(ys) < 2 THEN NaN ELSE FDiv(SumSeq(sq), Rat(Len(ys) - 1, 1))

\* sample standard deviation
Std(xs) == LET v == Var(xs) IN IF IsNaN(v) THEN NaN ELSE Root(1, v.n, v.d)

\* a division that answers 0 instead of dividing by a zero volatility
ScoreDivZeroGuard(m, v) ==
    IF IsNaN(m) \/ IsNaN(v) THEN NaN
    ELSE IF v.s = 0 THEN Rat(0, 1)
    ELSE Root(m.s, m.n * m.n * v.d, m.d * m.d * v.n)

\* mean / std as doubles divide: 0/0 = NaN, m/0 = +-inf
ScoreDiv(m, v) ==
    IF IsNaN(m) \/ IsNaN(v) THEN NaN
    ELSE IF v.s = 0 THEN (IF m.s = 0 THEN NaN ELSE Inf(m.s))
    ELSE Root(m.s, m.n * m.n * v.d, m.d * m.d * v.n)

----------------------------------------------------------------------------
(* Frames, and the upstream API                                            *)

EmptyFrame == [columns |-> <<>>, rows |-> <<>>]

\* DataFrame.empty: no row or no column
IsEmpty(df) == df.rows = <<>> \/ df.columns = <<>>

RawColumns == <<"symbol", "date", "adj_open", "adj_close", "volume", "dividend">>

SYMBOLS == <<"NKE", "AAPL", "AMZN", "AXP", "BA", "CSCO", "IBM", "JPM", "MSFT",
             "V", "MA", "NVDA", "TSLA", "VZ", "NFLX", "CRM", "PG", "UNH", "WMT", "GS", "DJI.INDX">>

\* the same symbols in the order Python compares strings
SymbolOrder == <<"AAPL", "AMZN", "AXP", "BA", "CRM", "CSCO", "DJI.INDX", "GS", "IBM", "JPM",
                 "MA", "MSFT", "NFLX", "NKE", "NVDA", "PG", "TSLA", "UNH", "V", "VZ", "WMT">>

SymRank(s) == CHOOSE r \in 1..Len(SymbolOrder) : SymbolOrder[r] = s

MaxSymbols == 2

\* a JSON number and JSON null
JNum(v) == [null |-> FALSE, v |-> v]

JNull == [null |-> TRUE, v |-> 0]

\* one day's prices as the API may report them: open, close, volume, dividend
Quotes ==
    { [adj_open |-> JNum(100), adj_close |-> JNum(102), volume |-> JNum(10), dividend |-> JNum(0)],
      [adj_open |-> JNum(100), adj_close |-> JNum(100), volume |-> JNum(20), dividend |-> JNum(0)],
      [adj_open |-> JNum(50),  adj_close |-> JNum(49),  volume |-> JNum(30), dividend |-> JNum(1)],
      [adj_open |-> JNum(50),  adj_close |-> JNull,     volume |-> JNum(40), dividend |-> JNum(0)] }

RowCounts == {1, 2}

\* the j-th trading day of the window, as the date string's year, month, day
DateOf(j) == IF j <= 2 THEN <<2024, 1, 29 + j>> ELSE <<2024, 2, j - 2>>

\* a `data` array for symbol s: the quotes q, one per day, listed in order srt
PayloadOf(s, srt, q) ==
    [j \in 1..Len(q) |->
       [symbol |-> s,
        date |-> DateOf(IF srt = "ASC" THEN j ELSE Len(q) + 1 - j),
        adj_open |-> q[j].adj_open, adj_close |-> q[j].adj_close,
        volume |-> q[j].volume, dividend |-> q[j].dividend]]

\* the `data` arrays the API may return for symbol s under sort order srt
Payloads(s, srt) == UNION { { PayloadOf(s, srt, q) : q \in [1..r -> Quotes] } : r \in RowCounts }

\* what requests.get may do for symbol s: raise, answer with an error status,
\* answer 200 without `data`, with an empty `data`, or with a day list
Responses(s, srt) ==
    { [raises |-> TRUE,  status |-> 0,   has_data |-> FALSE, data |-> <<>>],
      [raises |-> FALSE, status |-> 429, has_data |-> FALSE, data |-> <<>>],
      [raises |-> FALSE, status |-> 200, has_data |-> FALSE, data |-> <<>>],
      [raises |-> FALSE, status |-> 200, has_data |-> TRUE,  data |-> <<>>] }
    \cup { [raises |-> FALSE, status |-> 200, has_data |-> TRUE, data |-> p] : p \in Payloads(s, srt) }

\* a JSON value as a DataFrame cell: null becomes NaN
Cell(j) == IF j.null THEN NaN ELSE Rat(j.v, 1)

DateStr(ymd) == [t |-> "str", v |-> ymd]

Timestamp(days) == [t |-> "ts", v |-> <<days>>]

\* pd.DataFrame(data['data']): one row per record, one column per key
FrameOfJson(recs) ==
    [columns |-> IF recs = <<>> THEN <<>> ELSE RawColumns,
     rows |-> [j \in 1..Len(recs) |->
                 [symbol |-> recs[j].symbol, date |-> DateStr(recs[j].date),
                  adj_open |-> Cell(recs[j].adj_open), adj_close |-> Cell(recs[j].adj_close),
                  volume |-> Cell(recs[j].volume), dividend |-> Cell(recs[j].dividend)]]]

RECURSIVE ConcatRows(_)
ConcatRows(dfs) == IF dfs = <<>> THEN <<>> ELSE Head(dfs).rows \o ConcatRows(Tail(dfs))

\* pd.concat(frames, ignore_index=True) of frames with the same columns
ConcatFrames(dfs) == [columns |-> Head(dfs).columns, rows |-> ConcatRows(dfs)]

----------------------------------------------------------------------------
(* fetch_last_60_days_prices                                               *)

\* the loop body with a failed request discarding what was collected so far
AppendResponseResetOnError(acc, resp) ==
    IF resp.raises \/ resp.status # 200 THEN <<>>
    ELSE IF resp.has_data /\ resp.data # <<>>
         THEN Append(acc, FrameOfJson(resp.data))
         ELSE acc

\* loop body, lines 30-42: what one response appends to all_data
AppendResponse(acc, resp) ==
    IF resp.raises THEN acc
    ELSE IF resp.status = 200
         THEN IF resp.has_data /\ resp.data # <<>>
              THEN Append(acc, FrameOfJson(resp.data))
              ELSE acc
         ELSE acc

\* lines 45-53: the frame the function returns
FetchResult(acc) ==
    IF acc # <<>>
    THEN LET non_empty_data == SelectSeq(acc, LAMBDA df : ~IsEmpty(df))
         IN  IF non_empty_data # <<>> THEN ConcatFrames(non_empty_data) ELSE EmptyFrame
    ELSE EmptyFrame

\* the raw file written whether or not anything was collected
FetchFilesAlways(acc) == {[name |-> "last_60_days_prices.csv", frame |-> "raw_data"]}

\* lines 45-53: the files the function has written when it returns
FetchFiles(acc) ==
    IF acc # <<>> THEN {[name |-> "last_60_days_prices.csv", frame |-> "raw_data"]} ELSE {}

FetchSymbol ==
    /\ pc = "fetch_loop"
    /\ i < Len(symbols)
    /\ \E resp \in Responses(symbols[i + 1], api_sort) :
          /\ all_data' = AppendResponse(all_data, resp)
          /\ responses' = Append(responses, resp)
    /\ i' = i + 1
    /\ UNCHANGED <<pc, symbols, api_sort, data, performance, top_5_stocks, stock_metrics,
                   top_stocks, files, exc, calls, layout_built, shown>>

FetchReturn ==
    /\ pc = "fetch_loop"
    /\ i = Len(symbols)
    /\ data' = FetchResult(all_data)
    /\ files' = files \cup FetchFiles(all_data)
    /\ pc' = "fetched"
    /\ UNCHANGED <<symbols, api_sort, responses, i, all_data, performance, top_5_stocks,
                   stock_metrics, top_stocks, exc, calls, layout_built, shown>>

----------------------------------------------------------------------------
(* analyze_and_recommend                                                   *)

\* days since 1970-01-01 of the civil date <<y, m, d>>
DaysFromCivil(ymd) ==
    LET y   == IF ymd[2] <= 2 THEN ymd[1] - 1 ELSE ymd[1]
        era == y \div 400
        yoe == y - era * 400
        mp  == (ymd[2] + 9) % 12
        doy == (153 * mp + 2) \div 5 + ymd[3] - 1
        doe == yoe * 365 + yoe \div 4 - yoe \div 100 + doy
    IN  era * 146097 + doe - 719468

\* pd.to_datetime on one cell: parses a date string, keeps a timestamp
ToDatetime(c) == IF c.t = "ts" THEN c ELSE Timestamp(DaysFromCivil(c.v))

\* data['date'] = pd.to_datetime(data['date'])
ConvertDates(df) ==
    [df EXCEPT !.rows = [j \in 1..Len(df.rows) |->
                            [df.rows[j] EXCEPT !.date = ToDatetime(df.rows[j].date)]]]

\* row a sorts strictly before row b by (symbol, date)
SymbolDateLess(a, b) ==
    \/ SymRank(a.symbol) < SymRank(b.symbol)
    \/ a.symbol = b.symbol /\ a.date.v[1] < b.date.v[1]

\* x put into the sorted sequence xs after every element not greater than it
RECURSIVE InsertRow(_, _)
InsertRow(xs, x) ==
    IF xs = <<>> THEN <<x>>
    ELSE IF SymbolDateLess(x, Head(xs)) THEN <<x>> \o xs
    ELSE <<Head(xs)>> \o InsertRow(Tail(xs), x)

RECURSIVE SortRows(_)
SortRows(xs) == IF xs = <<>> THEN <<>> ELSE InsertRow(SortRows(SubSeq(xs, 1, Len(xs) - 1)), xs[Len(xs)])

\* the sort left out
SortBySymbolDateSkipped(df) == df

\* data.sort_values(by=['symbol', 'date'], inplace=True)
SortBySymbolDate(df) == [df EXCEPT !.rows = SortRows(df.rows)]

\* ((adj_close - adj_open) / adj_open) * 100
PercentChange(r) == FMul(FDiv(FSub(r.adj_close, r.adj_open), r.adj_open), Rat(100, 1))

AddColumn(cols, c) == IF \E j \in 1..Len(cols) : cols[j] = c THEN cols ELSE Append(cols, c)

\* data['percent_change'] = ...
WithPercentChange(df) ==
    [columns |-> AddColumn(df.columns, "percent_change"),
     rows |-> [j \in 1..Len(df.rows) |->
                 [symbol |-> df.rows[j].symbol, date |-> df.rows[j].date,
                  adj_open |-> df.rows[j].adj_open, adj_close |-> df.rows[j].adj_close,
                  volume |-> df.rows[j].volume, dividend |-> df.rows[j].dividend,
                  percent_change |-> PercentChange(df.rows[j])]]]

\* lines 62-64: the dataset as analyze_and_recommend leaves it
AnalyzedData(df) == WithPercentChange(SortBySymbolDate(ConvertDates(df)))

\* the group keys of groupby('symbol'): the distinct symbols, sorted
RECURSIVE SortedSymbols(_, _)
SortedSymbols(S, r) ==
    IF r > Len(SymbolOrder) THEN <<>>
    ELSE (IF SymbolOrder[r] \in S THEN <<SymbolOrder[r]>> ELSE <<>>) \o SortedSymbols(S, r + 1)

GroupKeys(df) == SortedSymbols({df.rows[j].symbol : j \in 1..Len(df.rows)}, 1)

RowsOf(df, s) == SelectSeq(df.rows, LAMBDA r : r.symbol = s)

\* groupby 'last': the last non-null value of the group
GroupLast(xs) == LET ys == NotNaN(xs) IN IF ys = <<>> THEN NaN ELSE ys[Len(ys)]

PerformanceColumns ==
    <<"symbol", "avg_percent_change", "volatility", "last_closing_price", "avg_dividend", "score">>

\* lines 66-73: one row of the performance table
PerformanceRow(df, s) ==
    LET g   == RowsOf(df, s)
        pcs == [j \in 1..Len(g) |-> g[j].percent_change]
        avg == Mean(pcs)
        vol == Std(pcs)
    IN  [symbol |-> s,
         avg_percent_change |-> avg,
         volatility |-> vol,
         last_closing_price |-> GroupLast([j \in 1..Len(g) |-> g[j].adj_close]),
         avg_dividend |-> Mean([j \in 1..Len(g) |-> g[j].dividend]),
         score |-> ScoreDiv(avg, vol)]

\* lines 66-73: the performance table of an analyzed dataset
Performance(df) ==
    LET keys == GroupKeys(df)
    IN  [columns |-> PerformanceColumns,
         rows |-> [j \in 1..Len(keys) |-> PerformanceRow(df, keys[j])]]

\* positions of rows whose score no other row of S exceeds
Maximal(rows, S) == {j \in S : \A k \in S : ~Lt(rows[j].score, rows[k].score)}

\* every arrangement of the positions S in descending order of score
RECURSIVE DescendingOrders(_, _)
DescendingOrders(rows, S) ==
    IF S = {} THEN {<<>>}
    ELSE UNION { { <<j>> \o rest : rest \in DescendingOrders(rows, S \ {j}) } : j \in Maximal(rows, S) }

\* the sort with ascending=False left out: the descending orders, reversed
SortByScoreAscending(rows) ==
    LET nan  == SelectSeq([j \in 1..Len(rows) |-> j], LAMBDA j : IsNaN(rows[j].score))
        rest == {j \in 1..Len(rows) : ~IsNaN(rows[j].score)}
    IN  { [p \in 1..Len(rows) |-> rows[([q \in 1..Len(o) |-> o[Len(o) + 1 - q]] \o nan)[p]]]
          : o \in DescendingOrders(rows, rest) }

\* sort_values(by='score', ascending=False) with the default kind='quicksort':
\* non-NaN scores in descending order, rows of equal score in an order the
\* sort does not promise (quicksort is not a stable sort); NaN scores last,
\* in their original order
SortByScoreDescending(rows) ==
    LET nan  == SelectSeq([j \in 1..Len(rows) |-> j], LAMBDA j : IsNaN(rows[j].score))
        rest == {j \in 1..Len(rows) : ~IsNaN(rows[j].score)}
    IN  { [p \in 1..Len(rows) |-> rows[(o \o nan)[p]]] : o \in DescendingOrders(rows, rest) }

TopN == 5

\* one row too many
HeadRowsOneMore(rows) == SubSeq(rows, 1, IF Len(rows) < TopN + 1 THEN Len(rows) ELSE TopN + 1)

\* .head(5)
HeadRows(rows) == SubSeq(rows, 1, IF Len(rows) < TopN THEN Len(rows) ELSE TopN)

\* line 74: the frames sort_values(...).head(5) may return
TopByScore(df) == { [columns |-> df.columns, rows |-> HeadRows(o)] : o \in SortByScoreDescending(df.rows) }

\* the to_csv call left out
AnalyzeFilesNone == {}

\* line 76: the file analyze_and_recommend writes
AnalyzeFiles == {[name |-> "top_5_recommendations.csv", frame |-> "top_5_stocks"]}

\* analyze_and_recommend(d): the possible (dataset, performance, top 5, files)
AnalyzeOutcomes(d) ==
    IF IsEmpty(d)
    THEN { [data |-> d, performance |-> EmptyFrame, top_5_stocks |-> EmptyFrame, files |-> {}] }
    ELSE LET nd   == AnalyzedData(d)
             perf == Performance(nd)
         IN  { [data |-> nd, performance |-> perf, top_5_stocks |-> t, files |-> AnalyzeFiles]
               : t \in TopByScore(perf) }

----------------------------------------------------------------------------
(* perform_regression                                                      *)

HasColumn(df, c) == \E j \in 1..Len(df.columns) : df.columns[j] = c

\* the columns that hold numbers (symbol and date are never missing)
NumericColumns(df) == {df.columns[j] : j \in 1..Len(df.columns)} \ {"symbol", "date"}

\* data.dropna(): the rows with no missing value in any column, as a new frame
DropNa(df) ==
    [columns |-> df.columns,
     rows |-> SelectSeq(df.rows, LAMBDA r : \A c \in NumericColumns(df) : ~IsNaN(r[c]))]

\* Series.unique(): the distinct symbols in order of first appearance
RECURSIVE UniqueSymbols(_, _)
UniqueSymbols(rows, seen) ==
    IF rows = <<>> THEN <<>>
    ELSE IF Head(rows).symbol \in seen THEN UniqueSymbols(Tail(rows), seen)
    ELSE <<Head(rows).symbol>> \o UniqueSymbols(Tail(rows), seen \cup {Head(rows).symbol})

\* sm.add_constant(X) with its default has_constant='skip': no constant
\* column is added when adj_open is itself a non-zero constant column
AddsConstant(g) ==
    ~(/\ \A j \in 1..Len(g) : g[j].adj_open = g[1].adj_open
      /\ \E j \in 1..Len(g) : g[j].adj_open.s # 0)

\* sm.OLS(y, X).fit() on the rows g of one symbol: per coefficient its name
\* and estimate, and the fit's rsquared_adj
Fit(g) ==
    LET n    == Rat(Len(g), 1)
        xs   == [j \in 1..Len(g) |-> g[j].adj_open]
        ys   == [j \in 1..Len(g) |-> g[j].adj_close]
        sx   == SumSeq(xs)
        sy   == SumSeq(ys)
        sxx  == SumSeq([j \in 1..Len(g) |-> FMul(xs[j], xs[j])])
        sxy  == SumSeq([j \in 1..Len(g) |-> FMul(xs[j], ys[j])])
        syy  == SumSeq([j \in 1..Len(g) |-> FMul(ys[j], ys[j])])
        \* centred sums of squares and products, times n
        cxx  == FSub(FMul(n, sxx), FMul(sx, sx))
        cxy  == FSub(FMul(n, sxy), FMul(sx, sy))
        cyy  == FSub(FMul(n, syy), FMul(sy, sy))
        tss  == FDiv(cyy, n)
        one  == Rat(1, 1)
    IN  IF AddsConstant(g)
        THEN LET slope == FDiv(cxy, cxx)
                 icpt  == FDiv(FSub(sy, FMul(slope, sx)), n)
                 ssr   == FSub(tss, FDiv(FMul(cxy, cxy), FMul(n, cxx)))
                 rsq   == FSub(one, FDiv(ssr, tss))
                 adj   == FSub(one, FMul(FDiv(FSub(n, one), FSub(n, Rat(2, 1))), FSub(one, rsq)))
             IN  [names |-> <<"const", "adj_open">>, coefs |-> <<icpt, slope>>, score |-> adj]
        ELSE \* the only regressor is constant: it is the model's constant,
             \* the fitted value is the mean of y and ssr equals tss
             LET slope == FDiv(sxy, sxx)
                 rsq   == FSub(one, FDiv(tss, tss))
                 adj   == FSub(one, FMul(FDiv(FSub(n, one), FSub(n, one)), FSub(one, rsq)))
             IN  [names |-> <<"adj_open">>, coefs |-> <<slope>>, score |-> adj]

MetricsColumns == <<"symbol", "variable", "coef", "std_err", "t", "P>|t|", "[0.025", "0.975]", "score">>

\* lines 89-112: the rows one symbol adds to stock_metrics (of the nine
\* columns the model carries symbol, variable, coef and score)
StockResults(cleaned, s) ==
    LET f == Fit(RowsOf(cleaned, s))
    IN  [j \in 1..Len(f.names) |->
           [symbol |-> s, variable |-> f.names[j], coef |-> f.coefs[j], score |-> f.score]]

RECURSIVE MetricsRows(_, _)
MetricsRows(cleaned, syms) ==
    IF syms = <<>> THEN <<>>
    ELSE StockResults(cleaned, Head(syms)) \o MetricsRows(cleaned, Tail(syms))

\* lines 86-114: stock_metrics after the loop; pd.DataFrame() when no symbol is left
StockMetrics(cleaned) ==
    LET syms == UniqueSymbols(cleaned.rows, {})
    IN  IF syms = <<>> THEN EmptyFrame
        ELSE [columns |-> MetricsColumns, rows |-> MetricsRows(cleaned, syms)]

\* lines 119-120: the intercept rows, by score descending, first five
TopRegression(m) ==
    TopByScore([columns |-> m.columns, rows |-> SelectSeq(m.rows, LAMBDA r : r.variable = "const")])

\* line 116: stock_metrics.to_csv(...)
MetricsFile == [name |-> "stock_regression_metrics.csv", frame |-> "stock_metrics"]

\* line 121: top_stocks.to_csv(...)
TopRegressionFile == [name |-> "top_5_stocks_regression.csv", frame |-> "top_stocks"]

\* line 84: dropna() returns a new frame; the argument is left as it was
DataAfterRegression(d) == d

\* perform_regression(d): the possible results; exc is the exception that
\* escapes: KeyError from stock_data_cleaned['symbol'] on a frame without
\* columns (line 85), or from stock_metrics['variable'] when no symbol was
\* fitted and stock_metrics is still pd.DataFrame() (line 119)
RegressionOutcomes(d) ==
    LET cleaned == DropNa(d)
        m       == StockMetrics(cleaned)
    IN  IF ~HasColumn(cleaned, "symbol")
        THEN { [exc |-> "KeyError", stock_metrics |-> EmptyFrame,
                top_stocks |-> EmptyFrame, files |-> {}] }
        ELSE IF ~HasColumn(m, "variable")
        THEN { [exc |-> "KeyError", stock_metrics |-> EmptyFrame,
                top_stocks |-> EmptyFrame, files |-> {MetricsFile}] }
        ELSE { [exc |-> "none", stock_metrics |-> m, top_stocks |-> t,
                files |-> {MetricsFile, TopRegressionFile}]
               : t \in TopRegression(m) }

----------------------------------------------------------------------------
(* The module-level script, lines 138-199                                  *)

NoShow == [served |-> FALSE, selected |-> "", rows |-> <<>>]

Range(f) == {f[j] : j \in 1..Len(f)}

Init ==
    /\ pc = "fetch_loop"
    /\ symbols \in {SubSeq(SYMBOLS, 1, n) : n \in 0..MaxSymbols}
    /\ api_sort \in {"ASC", "DESC"}
    /\ responses = <<>>
    /\ i = 0
    /\ all_data = <<>>
    /\ data = EmptyFrame
    /\ performance = EmptyFrame
    /\ top_5_stocks = EmptyFrame
    /\ stock_metrics = EmptyFrame
    /\ top_stocks = EmptyFrame
    /\ files = {}
    /\ exc = "none"
    /\ calls = {"fetch_last_60_days_prices"}
    /\ layout_built = FALSE
    /\ shown = NoShow

\* the emptiness check left out
ScriptExitsNever(d) == FALSE

\* line 140: if data.empty
ScriptExits(d) == IsEmpty(d)

\* lines 140-142: print and exit()
ScriptExit ==
    /\ pc = "fetched"
    /\ ScriptExits(data)
    /\ pc' = "exited"
    /\ UNCHANGED <<symbols, api_sort, responses, i, all_data, data, performance, top_5_stocks,
                   stock_metrics, top_stocks, files, exc, calls, layout_built, shown>>

\* line 144: data['date'] = pd.to_datetime(data['date'])
ScriptConvertDate ==
    /\ pc = "fetched"
    /\ ~ScriptExits(data)
    /\ data' = ConvertDates(data)
    /\ pc' = "layout"
    /\ UNCHANGED <<symbols, api_sort, responses, i, all_data, performance, top_5_stocks,
                   stock_metrics, top_stocks, files, exc, calls, layout_built, shown>>

\* lines 147-164: app.layout = ...
BuildLayout ==
    /\ pc = "layout"
    /\ layout_built' = TRUE
    /\ pc' = "analyze"
    /\ UNCHANGED <<symbols, api_sort, responses, i, all_data, data, performance, top_5_stocks,
                   stock_metrics, top_stocks, files, exc, calls, shown>>

\* a call of analyze_and_recommend(data) made at `from`, returning to `to`
AnalyzeStep(from, to) ==
    /\ pc = from
    /\ \E out \in AnalyzeOutcomes(data) :
          /\ data' = out.data
          /\ performance' = out.performance
          /\ top_5_stocks' = out.top_5_stocks
          /\ files' = files \cup out.files
    /\ calls' = calls \cup {"analyze_and_recommend"}
    /\ pc' = to
    /\ UNCHANGED <<symbols, api_sort, responses, i, all_data, stock_metrics, top_stocks,
                   exc, layout_built, shown>>

\* a call of perform_regression(data) made at `from`, returning to `to`
RegressStep(from, to) ==
    /\ pc = from
    /\ \E out \in RegressionOutcomes(data) :
          /\ stock_metrics' = IF out.exc = "none" THEN out.stock_metrics ELSE stock_metrics
          /\ top_stocks' = IF out.exc = "none" THEN out.top_stocks ELSE top_stocks
          /\ files' = files \cup out.files
          /\ exc' = out.exc
          /\ pc' = IF out.exc = "none" THEN to ELSE "crashed"
    /\ data' = DataAfterRegression(data)
    /\ calls' = calls \cup {"perform_regression"}
    /\ UNCHANGED <<symbols, api_sort, responses, i, all_data, performance, top_5_stocks,
                   layout_built, shown>>

\* line 195
ScriptAnalyze == AnalyzeStep("analyze", "regress")

\* line 196
ScriptRegress == RegressStep("regress", "main")

\* lines 198-199: app.run_server(debug=True)
RunServer ==
    /\ pc = "main"
    /\ pc' = "serving"
    /\ UNCHANGED <<symbols, api_sort, responses, i, all_data, data, performance, top_5_stocks,
                   stock_metrics, top_stocks, files, exc, calls, layout_built, shown>>

\* line 177: data[data['symbol'] == selected_symbol], a new frame
FilteredData(d, sel) == SelectSeq(d.rows, LAMBDA r : r.symbol = sel)

\* the filtered frame assigned back to the module-level name
DataAfterCallbackFiltered(d, sel) == [d EXCEPT !.rows = FilteredData(d, sel)]

\* lines 176-191: the module-level dataset after one callback
DataAfterCallback(d, sel) == d

\* lines 176-191: update_dashboard(selected_symbol), served by the running app
UpdateDashboard ==
    /\ pc = "serving"
    /\ \E sel \in Range(symbols) :
          /\ shown' = [served |-> TRUE, selected |-> sel, rows |-> FilteredData(data, sel)]
          /\ data' = DataAfterCallback(data, sel)
    /\ UNCHANGED <<pc, symbols, api_sort, responses, i, all_data, performance, top_5_stocks,
                   stock_metrics, top_stocks, files, exc, calls, layout_built>>

Next ==
    \/ FetchSymbol
    \/ FetchReturn
    \/ ScriptExit
    \/ ScriptConvertDate
    \/ BuildLayout
    \/ ScriptAnalyze
    \/ ScriptRegress
    \/ RunServer
    \/ UpdateDashboard

Spec == Init /\ [][Next]_vars

----------------------------------------------------------------------------
(* The stage functions called directly on a table                          *)

MaxTableSymbols == 6

Quote(o, c, v, dv) == [adj_open |-> JNum(o), adj_close |-> JNum(c), volume |-> JNum(v), dividend |-> JNum(dv)]

\* the price histories a symbol of an input table may have
Profiles ==
    { <<Quote(100, 100, 10, 0)>>,
      <<Quote(100, 102, 10, 0), Quote(50, 50, 20, 0), Quote(100, 100, 30, 1)>>,
      <<Quote(100, 98, 10, 0), Quote(50, 49, 20, 1), Quote(100, 100, 30, 0)>> }

\* the table fetch would return for the symbols syms with histories h
TableOf(syms, h) ==
    IF syms = <<>> THEN EmptyFrame
    ELSE ConcatFrames([j \in 1..Len(syms) |-> FrameOfJson(PayloadOf(syms[j], "DESC", h[j]))])

InitCalls ==
    /\ pc \in {"call_analyze", "call_regress"}
    /\ symbols \in {SubSeq(SYMBOLS, 1, n) : n \in 0..MaxTableSymbols}
    /\ api_sort = "DESC"
    /\ responses = <<>>
    /\ i = 0
    /\ all_data = <<>>
    /\ data \in {TableOf(symbols, h) : h \in [1..Len(symbols) -> Profiles]}
    /\ performance = EmptyFrame
    /\ top_5_stocks = EmptyFrame
    /\ stock_metrics = EmptyFrame
    /\ top_stocks = EmptyFrame
    /\ files = {}
    /\ exc = "none"
    /\ calls = {}
    /\ layout_built = FALSE
    /\ shown = NoShow

CallAnalyze == AnalyzeStep("call_analyze", "returned")

CallRegress == RegressStep("call_regress", "returned")

NextCalls == CallAnalyze \/ CallRegress

SpecCalls == InitCalls /\ [][NextCalls]_vars

----------------------------------------------------------------------------
(* Properties                                                              *)

\* a response that carries data: status 200 with a non-empty `data` array
Qualifies(r) == ~r.raises /\ r.status = 200 /\ r.has_data /\ r.data # <<>>

\* the API records of the responses that carry data, in request order
RECURSIVE ServedRecords(_)
ServedRecords(rs) ==
    IF rs = <<>> THEN <<>>
    ELSE (IF Qualifies(Head(rs)) THEN Head(rs).data ELSE <<>>) \o ServedRecords(Tail(rs))

\* a frame cell holds the JSON value j: null as NaN, a number as itself
SameValue(c, j) == IF j.null THEN c.k = "nan" ELSE c.k = "rat" /\ c.s * c.n = j.v /\ c.d = 1

SameRecord(row, rec) ==
    /\ row.symbol = rec.symbol
    /\ row.date.t = "str" /\ row.date.v = rec.date
    /\ SameValue(row.adj_open, rec.adj_open)
    /\ SameValue(row.adj_close, rec.adj_close)
    /\ SameValue(row.volume, rec.volume)
    /\ SameValue(row.dividend, rec.dividend)

NoneServed == \A j \in 1..Len(responses) : ~Qualifies(responses[j])

FramesWritten == {w.frame : w \in files}

PipelineCompleted == pc \in {"main", "serving"}

Analyzed == "analyze_and_recommend" \in calls

Regressed == "perform_regression" \in calls /\ exc = "none"

\* C1 (as claimed): once the script's pipeline has completed on a non-empty
\* dataset, five files exist: raw data, the full performance table, the top-5
\* picks, the regression metrics and the top-5 regression picks.
C1_FiveFilesWritten ==
    (PipelineCompleted /\ ~NoneServed) =>
        {"raw_data", "performance", "top_5_stocks", "stock_metrics", "top_stocks"} \subseteq FramesWritten

\* C1 (amended): once the pipeline has completed on a non-empty dataset,
\* exactly four files exist (raw data, top-5 picks, regression metrics, top-5
\* regression picks); the full performance table is returned, never saved.
C1_FourFilesWritten ==
    (PipelineCompleted /\ ~NoneServed) =>
        /\ FramesWritten = {"raw_data", "top_5_stocks", "stock_metrics", "top_stocks"}
        /\ {w.name : w \in files} = {"last_60_days_prices.csv", "top_5_recommendations.csv",
                                     "stock_regression_metrics.csv", "top_5_stocks_regression.csv"}
        /\ ~IsEmpty(performance)

C1_Witness == pc = "serving" /\ Len(performance.rows) = 2 /\ Cardinality(files) = 4

\* C2: for an empty symbol list, and when every request fails (exception,
\* non-200 status, missing or empty `data`), fetch returns the empty dataset,
\* no output table is produced, no file is written and no exception escapes:
\* the script stops at its emptiness check, so neither analysis stage is ever
\* run on the empty dataset.
C2_NoDataNoOutputNoException ==
    NoneServed =>
        /\ exc = "none" /\ pc # "crashed"
        /\ pc # "fetch_loop" => IsEmpty(data)
        /\ IsEmpty(performance) /\ IsEmpty(top_5_stocks)
        /\ IsEmpty(stock_metrics) /\ IsEmpty(top_stocks)
        /\ files = {}

C2_Witness ==
    /\ pc = "exited"
    /\ Len(responses) = 2
    /\ ~responses[1].raises /\ responses[1].status = 200 /\ ~responses[1].has_data
    /\ ~responses[2].raises /\ responses[2].status = 200 /\ responses[2].has_data
    /\ responses[2].data = <<>>
    /\ IsEmpty(data)

\* C3: the frame fetch returns holds exactly the records of the responses
\* with status 200 and a non-empty `data`, field for field, in request order;
\* every symbol was requested whatever happened to the ones before it.
C3_FetchKeepsServedRecords ==
    pc = "fetched" =>
        LET e == ServedRecords(responses)
        IN  /\ Len(responses) = Len(symbols)
            /\ Len(data.rows) = Len(e)
            /\ \A j \in 1..Len(e) : SameRecord(data.rows[j], e[j])

C3_Witness ==
    /\ pc = "fetched"
    /\ Len(responses) = 2
    /\ responses[1].raises
    /\ Qualifies(responses[2])
    /\ Len(data.rows) = 2
    /\ \E j \in 1..2 : IsNaN(data.rows[j].adj_close)

\* the rows of top are distinct rows of full
IsSubFrame(top, full) ==
    /\ \A j \in 1..Len(top.rows) : \E p \in 1..Len(full.rows) : full.rows[p] = top.rows[j]
    /\ \A j, k \in 1..Len(top.rows) : j # k => top.rows[j] # top.rows[k]

\* scores in descending order, the NaN scores (which have no order) last
DescendingNaNLast(rows) ==
    \A j, k \in 1..Len(rows) :
        (j < k /\ ~IsNaN(rows[k].score)) => (~IsNaN(rows[j].score) /\ ~Lt(rows[j].score, rows[k].score))

\* C4: the top-5 of analyze_and_recommend is at most 5 distinct rows of the
\* performance table, the top-5 of perform_regression at most 5 distinct
\* intercept rows of the regression metrics, each in descending score order
\* (rows whose score is NaN come last).
C4_TopFiveSubsetSorted ==
    /\ (pc = "returned" /\ Analyzed) =>
          /\ IsSubFrame(top_5_stocks, performance)
          /\ Len(top_5_stocks.rows) <= TopN
          /\ DescendingNaNLast(top_5_stocks.rows)
    /\ (pc = "returned" /\ Regressed) =>
          /\ IsSubFrame(top_stocks, stock_metrics)
          /\ \A j \in 1..Len(top_stocks.rows) : top_stocks.rows[j].variable = "const"
          /\ Len(top_stocks.rows) <= TopN
          /\ DescendingNaNLast(top_stocks.rows)

C4_Witness ==
    /\ pc = "returned"
    /\ Regressed
    /\ Cardinality({j \in 1..Len(stock_metrics.rows) : stock_metrics.rows[j].variable = "const"}) > TopN
    /\ Len(top_stocks.rows) = TopN
    /\ Lt(top_stocks.rows[TopN].score, top_stocks.rows[1].score)

\* every row of symbol s has percent change pct and no dividend
AllRowsChange(s, pct) ==
    /\ \E j \in 1..Len(data.rows) : data.rows[j].symbol = s
    /\ \A j \in 1..Len(data.rows) :
          data.rows[j].symbol = s =>
              data.rows[j].percent_change = Rat(pct, 1) /\ data.rows[j].dividend = Rat(0, 1)

PerfRow(s) == performance.rows[CHOOSE p \in 1..Len(performance.rows) : performance.rows[p].symbol = s]

PosIn(df, s) == CHOOSE p \in 1..Len(df.rows) : df.rows[p].symbol = s

\* symbols a (first in symbol order, as AAA before BBB) and b of the scenario
Scenario(a, b) ==
    /\ Analyzed
    /\ a \in Range(symbols) /\ b \in Range(symbols)
    /\ SymRank(a) < SymRank(b)
    /\ AllRowsChange(a, 2)
    /\ AllRowsChange(b, 0)

\* C5 (as claimed): AAA rows all +2 %, BBB rows all 0 %: AAA's score is a
\* finite positive number, BBB's is not finite, BBB is below AAA in the top 5.
C5_ConstantGainFiniteScore ==
    \A a, b \in Range(symbols) :
        Scenario(a, b) =>
            /\ IsFinite(PerfRow(a).score) /\ PerfRow(a).score.s > 0
            /\ ~IsFinite(PerfRow(b).score)
            /\ PosIn(top_5_stocks, a) < PosIn(top_5_stocks, b)

\* C5 (amended): in that scenario AAA's volatility is 0 (NaN with one row), so
\* AAA's score is +inf with two or more rows and NaN with one, never finite;
\* BBB's score is NaN; BBB is below AAA in the top 5.
C5_ConstantGainInfiniteScore ==
    \A a, b \in Range(symbols) :
        Scenario(a, b) =>
            /\ PerfRow(a).score = (IF Len(RowsOf(data, a)) >= 2 THEN Inf(1) ELSE NaN)
            /\ PerfRow(b).score = NaN
            /\ PosIn(top_5_stocks, a) < PosIn(top_5_stocks, b)

C5_Witness ==
    /\ pc = "regress"
    /\ Scenario("AAPL", "NKE")
    /\ Len(RowsOf(data, "AAPL")) = 2
    /\ PerfRow("AAPL").score = Inf(1)
    /\ top_5_stocks.rows[2].symbol = "NKE"

\* every symbol has a defined, non-zero volatility
AllVolatileNonZero ==
    /\ Analyzed
    /\ ~IsEmpty(performance)
    /\ \A p \in 1..Len(performance.rows) :
          performance.rows[p].volatility.k = "root" /\ performance.rows[p].volatility.s # 0

\* C6 (as claimed): with non-zero volatilities every score is finite and the
\* ranking is stable: rows of equal score keep their performance-table order.
C6_FiniteScoresStableRanking ==
    AllVolatileNonZero =>
        /\ \A p \in 1..Len(performance.rows) : IsFinite(performance.rows[p].score)
        /\ \A j, k \in 1..Len(top_5_stocks.rows) :
              (j < k /\ ~Lt(top_5_stocks.rows[k].score, top_5_stocks.rows[j].score)) =>
                  PosIn(performance, top_5_stocks.rows[j].symbol)
                      < PosIn(performance, top_5_stocks.rows[k].symbol)

\* C6 (amended): with non-zero volatilities every score is finite and the
\* ranking lists the performance rows in descending score order; the order of
\* rows of equal score is not fixed.
C6_FiniteScoresDescendingRanking ==
    AllVolatileNonZero =>
        /\ \A p \in 1..Len(performance.rows) : IsFinite(performance.rows[p].score)
        /\ IsSubFrame(top_5_stocks, performance)
        /\ Len(top_5_stocks.rows) = (IF Len(performance.rows) < TopN THEN Len(performance.rows) ELSE TopN)
        /\ \A j, k \in 1..Len(top_5_stocks.rows) :
              j < k => ~Lt(top_5_stocks.rows[j].score, top_5_stocks.rows[k].score)

C6_Witness ==
    /\ AllVolatileNonZero
    /\ Len(top_5_stocks.rows) = 2
    /\ top_5_stocks.rows[1].score = top_5_stocks.rows[2].score
    /\ top_5_stocks.rows[1].symbol = "NKE"

\* C7 (as claimed): a symbol with fewer than 2 rows left after dropna()
\* contributes no row to the regression metrics.
C7_NoFitOnFewerThanTwoRows ==
    Regressed =>
        \A j \in 1..Len(stock_metrics.rows) :
            Len(RowsOf(DropNa(data), stock_metrics.rows[j].symbol)) >= 2

\* C8: when no response carried data the script stops at the emptiness check:
\* no analysis stage is invoked, no performance or regression file is
\* written, no layout is built and the server never serves.
C8_NoDataStopsBeforeAnalysis ==
    (pc # "fetch_loop" /\ NoneServed) =>
        /\ pc \in {"fetched", "exited"}
        /\ pc = "fetched" => ScriptExits(data)
        /\ calls = {"fetch_last_60_days_prices"}
        /\ \A w \in files : w.frame = "raw_data"
        /\ ~layout_built
        /\ ~shown.served

C8_Witness ==
    /\ pc = "exited"
    /\ Len(responses) = 2
    /\ responses[1].raises
    /\ responses[2].status = 429

\* C9 (as claimed): after fetch has returned the dataset, no stage and no
\* callback changes it.
C9_DatasetNeverChanges ==
    [][(pc \in {"analyze", "regress", "main", "serving"}) => (data' = data)]_vars

\* C9 (amended): analyze_and_recommend changes the dataset in place (dates
\* converted, rows sorted by symbol and date, percent_change added); after it
\* has returned, neither perform_regression nor any callback changes the
\* dataset, so every callback sees the same one.
C9_DatasetFixedAfterAnalysis ==
    [][(pc \in {"regress", "main", "serving"}) => (data' = data)]_vars

C9_Witness ==
    /\ pc = "serving"
    /\ shown.served
    /\ HasColumn(data, "percent_change")
    /\ Len(data.rows) >= 2
    /\ data.rows[1].symbol = "AAPL"
    /\ Qualifies(responses[1])

\* C10: a served callback passes to the charts exactly the rows of the
\* selected symbol, in ascending date order, whatever order the API used.
C10_ChartsGetSymbolRowsByDate ==
    shown.served =>
        LET e == ServedRecords(responses)
        IN  /\ \A j \in 1..Len(shown.rows) :
                  shown.rows[j].symbol = shown.selected /\ shown.rows[j].date.t = "ts"
            /\ \A j, k \in 1..Len(shown.rows) :
                  j < k => shown.rows[j].date.v[1] < shown.rows[k].date.v[1]
            /\ Len(shown.rows) = Cardinality({j \in 1..Len(e) : e[j].symbol = shown.selected})
            /\ \A j \in 1..Len(e) :
                  e[j].symbol = shown.selected =>
                      \E k \in 1..Len(shown.rows) :
                          /\ shown.rows[k].date = ToDatetime(DateStr(e[j].date))
                          /\ SameValue(shown.rows[k].adj_close, e[j].adj_close)
                          /\ SameValue(shown.rows[k].volume, e[j].volume)

C10_Witness ==
    /\ shown.served
    /\ api_sort = "DESC"
    /\ shown.selected = "NKE"
    /\ Len(shown.rows) = 2
    /\ Len(data.rows) = 4

====
